---- MODULE Spec2Model ----
(***************************************************************************)
(* Pagination of a finished story: the Heuristic Paginator (renderBook,    *)
(* js/book.js) and the Layout Compiler (BookCompiler, js/audio.js).        *)
(*                                                                         *)
(* A text is a run-length encoded string: a sequence of runs [c, n], n     *)
(* copies of a character of class c (a visible character, a space or a     *)
(* newline); neighbouring runs have different classes.  Pixel lengths are  *)
(* counted in 1/100 px, so that 20.16 px (the drop-cap extra) is 2016.     *)
(***************************************************************************)
EXTENDS Integers, Sequences, FiniteSets, TLC

VARIABLES
    storyData,          \* story metadata handed to both components
    scenes,             \* ordered scene list: [text, image_url]
    offsetHeight,       \* the browser's layout: rendered height of a paragraph
    book,               \* children of the #book element built by renderBook
    measureContainer,   \* BookCompiler.measureContainer (0 is null)
    body,               \* measurement containers attached to document.body
    run,                \* locals of the compile calls in flight, by slot
    layouts,            \* layouts returned by compile, in order of return
    settled,            \* the promises compile returned, in order of settling
    audio,              \* window.audioManager, with its speak calls and Audio objects
    pageFlip,           \* the book's PageFlip: current page, text last handed to speak
    storyPage,          \* the story page: scene, choices, event stream, panel, karma label
    polling             \* the story page's image polling: timer handle, chains, image

\* The state of the pages' scripts around the two paginators.
pageVars == <<audio, pageFlip, storyPage, polling>>

\* What the scripts of the story page do not touch.
bookVars == <<storyData, scenes, offsetHeight, book, measureContainer, body, run,
              layouts, settled, pageFlip>>

vars == <<storyData, scenes, offsetHeight, book, measureContainer, body, run,
          layouts, settled, audio, pageFlip, storyPage, polling>>

----------------------------------------------------------------------------
(* Bounds of the model *)

MaxScenes == 2          \* scenes of a story
MaxWords == 3           \* words (blank-line-free runs of visible text) of a story
MaxCompiles == 2        \* calls of compile on the one BookCompiler
MaxPatternScenes == 7   \* scenes of a story that runs through the position pattern
MaxSpecial == 2         \* scenes of such a story that are not plain illustrated ones

WordLens == {190, 492}              \* character counts of a word
NewlineRuns == {1, 2, 3}            \* newlines between two words
Heights == {13000, 60000}           \* rendered heights (1/100 px)
ImageUrls == {"", "img"}            \* "" is a missing image_url
EndingTypes == {"", "triumph"}      \* "" is a missing ending_type

----------------------------------------------------------------------------
(* Strings *)

CH == "x"
SP == " "
NL == "\n"

Run(c, n) == [c |-> c, n |-> n]

RECURSIVE Length(_)
Length(t) == IF t = <<>> THEN 0 ELSE Head(t).n + Length(Tail(t))

IsSpace(r) == r.c \in {SP, NL}

RECURSIVE TrimStart(_)
TrimStart(t) ==
    IF t # <<>> /\ IsSpace(Head(t)) THEN TrimStart(Tail(t)) ELSE t

RECURSIVE TrimEnd(_)
TrimEnd(t) ==
    IF t # <<>> /\ IsSpace(t[Len(t)]) THEN TrimEnd(SubSeq(t, 1, Len(t) - 1)) ELSE t

Trim(t) == TrimEnd(TrimStart(t))

\* text.split('\n\n'): a run of n newlines holds n \div 2 separators, matched
\* from the left; an odd newline is left over and starts the next piece.
RECURSIVE SplitRuns(_, _, _)
SplitRuns(t, cur, acc) ==
    IF t = <<>> THEN Append(acc, cur)
    ELSE LET r == Head(t) IN
         IF r.c = NL /\ r.n >= 2
         THEN SplitRuns(Tail(t),
                        IF r.n % 2 = 1 THEN <<Run(NL, 1)>> ELSE <<>>,
                        Append(acc, cur) \o [i \in 1..((r.n \div 2) - 1) |-> <<>>])
         ELSE SplitRuns(Tail(t), Append(cur, r), acc)

Split(t) == SplitRuns(t, <<>>, <<>>)

RECURSIVE Filter(_)
Filter(ps) ==
    IF ps = <<>> THEN <<>>
    ELSE IF Trim(Head(ps)) # <<>> THEN <<Head(ps)>> \o Filter(Tail(ps))
    ELSE Filter(Tail(ps))

Paragraphs(text) == Filter(Split(text))

\* array.slice(k)
Slice(s, k) == SubSeq(s, k + 1, Len(s))

----------------------------------------------------------------------------
(* Inputs *)

RECURSIVE WordTexts(_)
WordTexts(k) ==
    IF k = 1 THEN {<<Run(CH, w)>> : w \in WordLens}
    ELSE {t \o <<Run(NL, s), Run(CH, w)>> :
            t \in WordTexts(k - 1), s \in NewlineRuns, w \in WordLens}

Texts(k) == IF k = 0 THEN {<<>>, <<Run(SP, 2)>>} ELSE WordTexts(k)

RECURSIVE Stories(_, _)
Stories(n, budget) ==
    IF n = 0 THEN {<<>>}
    ELSE UNION {{<<[text |-> t, image_url |-> u]>> \o rest :
                    t \in Texts(k), u \in ImageUrls, rest \in Stories(n - 1, budget - k)} :
                k \in 0..budget}

\* The stories of at most maxScenes scenes with at most budget words in all
StoriesUpTo(maxScenes, budget) == UNION {Stories(n, budget) : n \in 0..maxScenes}

Measured(ss) == UNION {{Trim(Paragraphs(ss[i].text)[j]) :
                            j \in 1..Len(Paragraphs(ss[i].text))} : i \in 1..Len(ss)}

\* The pattern of book.js
imagePositions == <<"top", "top", "bottom", "top", "bottom", "top">>

ImagePosition(sceneIndex) == imagePositions[(sceneIndex % Len(imagePositions)) + 1]

\* Mutant: the pattern is run through in a cycle of four.
CompilerImagePositionFour(sceneIndex) == imagePositions[(sceneIndex % 4) + 1]

\* The pattern compile declares for itself
compilerImagePositions == <<"top", "top", "bottom", "top", "bottom", "top">>

CompilerImagePosition(sceneIndex) ==
    compilerImagePositions[(sceneIndex % Len(compilerImagePositions)) + 1]

HasImage(scene) == scene.image_url # ""

\* A null entry of the scene list (its text and image_url fields are there
\* for the typing of the model only; reading a property of null throws).
NullScene == [text |-> <<>>, image_url |-> "", null |-> TRUE]

IsNull(scene) == "null" \in DOMAIN scene

----------------------------------------------------------------------------
(* Heuristic Paginator: renderBook *)

CHARS_WITH_IMAGE == 380
CHARS_WITHOUT_IMAGE == 780

FirstPageLimit(scene) ==
    IF HasImage(scene) THEN CHARS_WITH_IMAGE ELSE CHARS_WITHOUT_IMAGE

\* Mutant: no hysteresis band, the scene splits as soon as it exceeds the limit.
NeedsSplitNoBand(scene) == Length(scene.text) > FirstPageLimit(scene)

\* totalChars > firstPageLimit * 1.8
NeedsSplit(scene) == Length(scene.text) * 10 > FirstPageLimit(scene) * 18

\* Mutant: a paragraph is taken only while the count stays below the limit.
RECURSIVE FillStrict(_, _, _, _)
FillStrict(pageParas, remainingParas, charCount, limit) ==
    IF remainingParas # <<>> /\ charCount + Length(Head(remainingParas)) < limit
    THEN FillStrict(Append(pageParas, Head(remainingParas)), Tail(remainingParas),
                    charCount + Length(Head(remainingParas)), limit)
    ELSE [page |-> pageParas, remaining |-> remainingParas]

\* The filling loop of a page: moves paragraphs from the head of the queue to
\* the page while the page's character count stays within the limit.
RECURSIVE Fill(_, _, _, _)
Fill(pageParas, remainingParas, charCount, limit) ==
    IF remainingParas # <<>> /\ charCount + Length(Head(remainingParas)) <= limit
    THEN Fill(Append(pageParas, Head(remainingParas)), Tail(remainingParas),
              charCount + Length(Head(remainingParas)), limit)
    ELSE [page |-> pageParas, remaining |-> remainingParas]

\* Mutant: the forced paragraph is copied to the page but stays in the queue.
FirstPageFillKeep(paragraphsArray, firstPageLimit) ==
    LET f == Fill(<<>>, paragraphsArray, 0, firstPageLimit) IN
    IF f.page = <<>> /\ f.remaining # <<>>
    THEN [page |-> <<Head(f.remaining)>>, remaining |-> f.remaining]
    ELSE f

\* Mutant: the first paragraph is placed before the loop and not counted.
FirstPageFillFirst(paragraphsArray, firstPageLimit) ==
    IF paragraphsArray = <<>> THEN [page |-> <<>>, remaining |-> <<>>]
    ELSE Fill(<<Head(paragraphsArray)>>, Tail(paragraphsArray), 0, firstPageLimit)

\* First page of a split scene: the loop, then "at least one paragraph".
FirstPageFill(paragraphsArray, firstPageLimit) ==
    LET f == Fill(<<>>, paragraphsArray, 0, firstPageLimit) IN
    IF f.page = <<>> /\ f.remaining # <<>>
    THEN [page |-> <<Head(f.remaining)>>, remaining |-> Tail(f.remaining)]
    ELSE f

\* A continuation page: the loop, then "force at least one".
PageFill(remainingParas) ==
    LET f == Fill(<<>>, remainingParas, 0, CHARS_WITHOUT_IMAGE) IN
    IF f.page = <<>> /\ f.remaining # <<>>
    THEN [page |-> <<Head(f.remaining)>>, remaining |-> Tail(f.remaining)]
    ELSE f

TrimAll(ps) == [i \in 1..Len(ps) |-> Trim(ps[i])]

\* A content page of the book.  paras is the array the page was built from,
\* paragraphs the <p> elements (each trimmed), scene the forEach index.
BookPage(sceneIndex, paras, hasImage, continuation, pageNumber) ==
    [type |-> "content",
     scene |-> sceneIndex,
     paras |-> paras,
     paragraphs |-> TrimAll(paras),
     hasImage |-> hasImage,
     imagePosition |-> IF hasImage THEN ImagePosition(sceneIndex) ELSE "null",
     continuation |-> continuation,
     pageNumber |-> pageNumber]

RECURSIVE ContinuationPages(_, _, _)
ContinuationPages(sceneIndex, remainingParas, pageNumber) ==
    IF remainingParas = <<>> THEN <<>>
    ELSE LET f == PageFill(remainingParas) IN
         <<BookPage(sceneIndex, f.page, FALSE, TRUE, pageNumber + 1)>>
         \o ContinuationPages(sceneIndex, f.remaining, pageNumber + 1)

\* Mutant: every scene above the threshold is split, illustrated or not.
ScenePagesSplitAny(scene, sceneIndex, pageNumber) ==
    LET paragraphsArray == Paragraphs(scene.text)
        hasImage == HasImage(scene)
    IN  IF NeedsSplit(scene)
        THEN LET f == FirstPageFill(paragraphsArray, FirstPageLimit(scene)) IN
             <<BookPage(sceneIndex, f.page, hasImage, FALSE, pageNumber + 1)>>
             \o ContinuationPages(sceneIndex, f.remaining, pageNumber + 1)
        ELSE <<BookPage(sceneIndex, paragraphsArray, hasImage, FALSE, pageNumber + 1)>>

\* The pages one forEach iteration appends; pageNumber is the counter before it.
ScenePages(scene, sceneIndex, pageNumber) ==
    LET paragraphsArray == Paragraphs(scene.text)
        hasImage == HasImage(scene)
    IN  IF NeedsSplit(scene) /\ hasImage
        THEN LET f == FirstPageFill(paragraphsArray, FirstPageLimit(scene)) IN
             <<BookPage(sceneIndex, f.page, TRUE, FALSE, pageNumber + 1)>>
             \o ContinuationPages(sceneIndex, f.remaining, pageNumber + 1)
        ELSE <<BookPage(sceneIndex, paragraphsArray, hasImage, FALSE, pageNumber + 1)>>

RECURSIVE ContentPages(_, _)
ContentPages(sceneIndex, pageNumber) ==
    IF sceneIndex >= Len(scenes) THEN <<>>
    ELSE LET ps == ScenePages(scenes[sceneIndex + 1], sceneIndex, pageNumber) IN
         ps \o ContentPages(sceneIndex + 1, pageNumber + Len(ps))

EndingOrDefault == IF storyData.ending_type = "" THEN "default" ELSE storyData.ending_type

\* The quote pools; a quote is named by its pool and its place in it.
Pool(name) == [n \in 1..3 |-> [pool |-> name, n |-> n]]

endingQuotes ==
    [triumph |-> Pool("triumph"),
     bittersweet |-> Pool("bittersweet"),
     mystery |-> Pool("mystery"),
     default |-> Pool("default")]

\* Math.random(), in thirds
Randoms == 0..2

\* endingQuotes[endingType] || endingQuotes.default, then a random element.
GetRandomQuote(endingType, random) ==
    LET quotes == IF endingType \in DOMAIN endingQuotes THEN endingQuotes[endingType]
                  ELSE endingQuotes.default
    IN  quotes[(random * Len(quotes)) \div 3 + 1]

\* String.prototype.toLowerCase on the tags of the model
ToLowerCase(tag) ==
    CASE tag = "Triumph" -> "triumph"
      [] tag = "MYSTERY" -> "mystery"
      [] OTHER -> tag

formatted ==
    [triumph |-> "A Triumphant Tale",
     bittersweet |-> "A Bittersweet Journey",
     mystery |-> "A Mysterious Conclusion",
     tragedy |-> "A Poignant Story",
     comedy |-> "A Joyful Adventure"]

FormatEndingType(ending) ==
    IF ending = "" THEN "A Tale Complete"
    ELSE IF ToLowerCase(ending) \in DOMAIN formatted THEN formatted[ToLowerCase(ending)]
    ELSE "A Tale Complete"

renderBook(random) ==
    <<[type |-> "cover", side |-> "front"], [type |-> "title"]>>
    \o ContentPages(0, 1)
    \o <<[type |-> "back",
          endingType |-> EndingOrDefault,
          quote |-> GetRandomQuote(EndingOrDefault, random),
          label |-> FormatEndingType(EndingOrDefault)]>>

\* window load -> loadBook -> renderBook
RenderBook ==
    /\ book = <<>>
    /\ \E random \in Randoms : book' = renderBook(random)
    /\ UNCHANGED <<storyData, scenes, offsetHeight, measureContainer, body, run,
                   layouts, settled>>
    /\ UNCHANGED pageVars

----------------------------------------------------------------------------
(* Layout Compiler: BookCompiler *)

pageHeight == 62000
IMAGE_HEIGHT_RATIO == 45            \* percent
PADDING_top == 2400
PADDING_bottom == 4000
FONT_SIZE == 1680

textAreaWithImage ==
    (pageHeight * (100 - IMAGE_HEIGHT_RATIO)) \div 100 - PADDING_top - PADDING_bottom - 1600
textAreaFullPage == pageHeight - PADDING_top - PADDING_bottom

\* measureParagraph: the height the browser lays the paragraph out at, plus
\* the drop-cap extra (FONT_SIZE * 1.2).  Leading and trailing white space of
\* a paragraph collapses in the layout.
MeasureParagraph(text, hasDropCap) ==
    offsetHeight[Trim(text)] + (IF hasDropCap THEN (FONT_SIZE * 12) \div 10 ELSE 0)

\* measureFit: the leading paragraphs that fit the available height.
RECURSIVE MeasureFitFrom(_, _, _, _, _)
MeasureFitFrom(paragraphs, i, currentHeight, availableHeight, hasDropCap) ==
    IF i > Len(paragraphs) THEN <<>>
    ELSE LET paraHeight == MeasureParagraph(paragraphs[i], i = 1 /\ hasDropCap) IN
         IF currentHeight + paraHeight <= availableHeight
         THEN <<paragraphs[i]>>
              \o MeasureFitFrom(paragraphs, i + 1, currentHeight + paraHeight,
                                availableHeight, hasDropCap)
         ELSE <<>>

\* Mutant: the first paragraph is accepted unmeasured, the filling goes on.
MeasureFitFirstFree(paragraphs, availableHeight, hasDropCap) ==
    IF paragraphs = <<>> THEN <<>>
    ELSE <<paragraphs[1]>> \o MeasureFitFrom(paragraphs, 2, 0, availableHeight, hasDropCap)

MeasureFit(paragraphs, availableHeight, hasDropCap) ==
    MeasureFitFrom(paragraphs, 1, 0, availableHeight, hasDropCap)

\* Mutant: every page of an illustrated scene shows the illustration.
ShowImageAlways(isFirstPage, hasImage) == hasImage

ShowImage(isFirstPage, hasImage) == isFirstPage /\ hasImage

\* Mutant: every page is measured against the full-page text area.
AvailableHeightFull(showImage) == textAreaFullPage

AvailableHeight(showImage) == IF showImage THEN textAreaWithImage ELSE textAreaFullPage

Idle == [pc |-> "idle"]

\* The compile calls that can be in flight on the one BookCompiler.
Slots == {1, 2}

InFlight == {s \in Slots : run[s].pc # "idle"}

\* Mutant: an exception is caught and the call returns with what it has.
ThrowSwallowed(r, reason) == [r EXCEPT !.pc = "returned", !.reason = reason]

\* An exception leaves the call (compile has no try block): its promise is
\* rejected and nothing after the throwing statement runs.
Throw(r, reason) == [r EXCEPT !.pc = "thrown", !.reason = reason]

Ended(r) == r.pc \in {"thrown", "returned"}

\* onProgress(percent): the caller's callback, which throws at its failAt-th
\* call (never when failAt is 0).  progress keeps every value passed to the
\* callback, and whether removeMeasureContainer had run by then.
Report(r, percent) ==
    IF Ended(r) THEN r
    ELSE LET passed == [r EXCEPT !.progress =
                            Append(@, [percent |-> percent, cleaned |-> r.cleaned])]
         IN  IF r.failAt = Len(passed.progress) THEN Throw(passed, "progress")
             ELSE passed

\* this.measureContainer as the call reads it: the container it has just
\* created while it runs up to its first await, the field's value afterwards.
Surface(r) == IF r.pc = "compile" THEN r.container ELSE measureContainer

\* paginateScene from the head of its while loop up to its await: the loop
\* ends (the call returns its pages) or measureFit is called; measureParagraph
\* throws a TypeError on a null measureContainer.
LoopHead(r) ==
    IF r.remainingParagraphs = <<>> THEN [r EXCEPT !.pc = "paginated"]
    ELSE IF Surface(r) = 0 THEN Throw(r, "measure")
    ELSE LET showImage == ShowImage(r.isFirstPage, r.hasImage) IN
         [r EXCEPT !.pc = "measured",
                   !.measuredIn = @ \cup {Surface(r)},
                   !.fittingParagraphs =
                       MeasureFit(r.remainingParagraphs, AvailableHeight(showImage),
                                  r.isFirstPage /\ ~showImage)]

\* Mutant: when no paragraph fits, none is forced onto the page and the loop
\* comes round with the queue as it was.
PlacePageUnforced(r) ==
    IF r.fittingParagraphs = <<>> THEN r
    ELSE [r EXCEPT !.scenePages =
                       Append(@, [type |-> "content",
                                  paragraphs |-> r.fittingParagraphs,
                                  hasImage |-> ShowImage(r.isFirstPage, r.hasImage),
                                  imagePosition |-> "null",
                                  imageUrl |-> "null"]),
                   !.remainingParagraphs = Slice(@, Len(r.fittingParagraphs)),
                   !.isFirstPage = FALSE,
                   !.fittingParagraphs = <<>>]

\* paginateScene after measureFit: force one paragraph when none fits, make the
\* page entry, cut the queue.
PlacePage(r) ==
    LET force == r.fittingParagraphs = <<>> /\ r.remainingParagraphs # <<>>
        fittingParagraphs ==
            IF force THEN <<Head(r.remainingParagraphs)>> ELSE r.fittingParagraphs
        shifted == IF force THEN Tail(r.remainingParagraphs) ELSE r.remainingParagraphs
        showImage == ShowImage(r.isFirstPage, r.hasImage)
        page == [type |-> "content",
                 paragraphs |-> fittingParagraphs,
                 hasImage |-> showImage,
                 imagePosition |-> IF showImage THEN r.imagePosition ELSE "null",
                 imageUrl |-> IF showImage THEN r.imageUrl ELSE "null"]
    IN  [r EXCEPT !.scenePages = Append(@, page),
                  !.remainingParagraphs = Slice(shifted, Len(fittingParagraphs)),
                  !.isFirstPage = FALSE,
                  !.fittingParagraphs = <<>>]

\* Mutant: the page counter lives on the compiler and is not reset by a call.
NumberedPageStale(page, idx, pageNumber, sceneIndex) ==
    [type |-> page.type,
     paragraphs |-> page.paragraphs,
     hasImage |-> page.hasImage,
     imagePosition |-> page.imagePosition,
     imageUrl |-> page.imageUrl,
     pageNumber |-> pageNumber
                    + (IF layouts = <<>> THEN 0 ELSE layouts[Len(layouts)].totalPages),
     sceneIndex |-> sceneIndex,
     isFirstPageOfScene |-> idx = 0,
     isContinuation |-> idx > 0]

\* Mutant: the numbering restarts with every scene.
NumberedPagePerScene(page, idx, pageNumber, sceneIndex) ==
    [type |-> page.type,
     paragraphs |-> page.paragraphs,
     hasImage |-> page.hasImage,
     imagePosition |-> page.imagePosition,
     imageUrl |-> page.imageUrl,
     pageNumber |-> idx + 2,
     sceneIndex |-> sceneIndex,
     isFirstPageOfScene |-> idx = 0,
     isContinuation |-> idx > 0]

\* Mutant: the second page of a scene is not flagged as a continuation.
NumberedPageLateContinuation(page, idx, pageNumber, sceneIndex) ==
    [type |-> page.type,
     paragraphs |-> page.paragraphs,
     hasImage |-> page.hasImage,
     imagePosition |-> page.imagePosition,
     imageUrl |-> page.imageUrl,
     pageNumber |-> pageNumber,
     sceneIndex |-> sceneIndex,
     isFirstPageOfScene |-> idx = 0,
     isContinuation |-> idx > 1]

\* A page entry of the layout: the scene page with its number and flags.
NumberedPage(page, idx, pageNumber, sceneIndex) ==
    [type |-> page.type,
     paragraphs |-> page.paragraphs,
     hasImage |-> page.hasImage,
     imagePosition |-> page.imagePosition,
     imageUrl |-> page.imageUrl,
     pageNumber |-> pageNumber,
     sceneIndex |-> sceneIndex,
     isFirstPageOfScene |-> idx = 0,
     isContinuation |-> idx > 0]

\* Mutant: progress counts the scene just paginated as done, plus the 5 of
\* the covers twice.
AddScenePagesAhead(r) ==
    Report([r EXCEPT !.pages = @ \o [k \in 1..Len(r.scenePages) |->
                                       NumberedPage(r.scenePages[k], k - 1,
                                                    r.pageNumber + k, r.sceneIndex)],
                     !.pageNumber = @ + Len(r.scenePages),
                     !.scenePages = <<>>,
                     !.sceneIndex = @ + 1],
           10 + ((r.sceneIndex + 1) * 90) \div Len(scenes))

\* compile after paginateScene: add the scene's pages, report progress.
AddScenePages(r) ==
    Report([r EXCEPT !.pages = @ \o [k \in 1..Len(r.scenePages) |->
                                       NumberedPage(r.scenePages[k], k - 1,
                                                    r.pageNumber + k, r.sceneIndex)],
                     !.pageNumber = @ + Len(r.scenePages),
                     !.scenePages = <<>>,
                     !.sceneIndex = @ + 1],
           5 + (r.sceneIndex * 90) \div Len(scenes))

\* Mutant: the back cover takes the ending type without the default.
BackCoverRaw == [type |-> "back", endingType |-> storyData.ending_type]

BackCover == [type |-> "back", endingType |-> EndingOrDefault]

\* compile from the head of its for loop up to its next await, its return or
\* an exception.  After the loop: the back cover, removeMeasureContainer
\* (cleaned), onProgress(100), the layout.  `scene.image_url` throws a
\* TypeError on a null scene.
RECURSIVE SceneLoop(_)
SceneLoop(r) ==
    IF Ended(r) THEN r
    ELSE IF r.sceneIndex >= Len(scenes)
    THEN LET reported == Report([r EXCEPT !.pages = Append(@, BackCover),
                                          !.cleaned = TRUE], 100)
         IN  IF Ended(reported) THEN reported ELSE [reported EXCEPT !.pc = "returned"]
    ELSE LET scene == scenes[r.sceneIndex + 1]
             paragraphs == Paragraphs(scene.text)
         IN  IF IsNull(scene) THEN Throw(r, "scene")
             ELSE IF paragraphs = <<>> THEN SceneLoop([r EXCEPT !.sceneIndex = @ + 1])
             ELSE LoopHead([r EXCEPT !.hasImage = HasImage(scene),
                                     !.imagePosition = CompilerImagePosition(r.sceneIndex),
                                     !.imageUrl = scene.image_url,
                                     !.remainingParagraphs = paragraphs,
                                     !.isFirstPage = TRUE,
                                     !.scenePages = <<>>])

Layout(r) ==
    [version |-> 1,
     storyId |-> storyData.id,
     endingType |-> storyData.ending_type,
     totalPages |-> r.pageNumber + 1,
     pages |-> r.pages,
     compiledAt |-> Len(layouts) + 1]

\* What a step of the call in slot s leaves behind, field and attached being
\* this.measureContainer and the containers in the document as the step found
\* or made them: the call in flight, or, when it ended, its settled promise
\* (and the layout it returned), after removeMeasureContainer if the call got
\* that far.
Settle(s, r, field, attached) ==
    LET fieldAfter == IF Ended(r) /\ r.cleaned THEN 0 ELSE field
        attachedAfter == IF Ended(r) /\ r.cleaned THEN attached \ {field} ELSE attached
    IN  /\ run' = [run EXCEPT ![s] = IF Ended(r) THEN Idle ELSE r]
        /\ measureContainer' = fieldAfter
        /\ body' = attachedAfter
        /\ layouts' = IF r.pc = "returned" THEN Append(layouts, Layout(r)) ELSE layouts
        /\ settled' = IF Ended(r)
                      THEN Append(settled,
                                  [container |-> r.container,
                                   state |-> IF r.pc = "returned" THEN "fulfilled"
                                             ELSE "rejected",
                                   reason |-> r.reason,
                                   progress |-> r.progress,
                                   attached |-> r.container \in attachedAfter,
                                   field |-> fieldAfter])
                      ELSE settled

Calls == Len(settled) + Cardinality(InFlight)

\* document.body is null until the document's body is parsed: no call got a
\* container attached so far.
NoBodyYet == InFlight = {} /\ \A k \in 1..Len(settled) : settled[k].reason = "surface"

\* A call of compile(storyData, scenes, onProgress) in slot s, up to its first
\* await.  createMeasureContainer assigns the new container to the field and
\* attaches it; without a document body the attaching throws.
Compile(s, failAt, hasBody) ==
    /\ run[s].pc = "idle"
    /\ Calls < MaxCompiles
    /\ hasBody \/ NoBodyYet
    /\ LET id == Calls + 1
           start == [pc |-> "compile",
                     container |-> id,
                     failAt |-> failAt,
                     measuredIn |-> {},
                     cleaned |-> FALSE,
                     reason |-> "none",
                     pages |-> <<[type |-> "cover", side |-> "front"],
                                 [type |-> "title", pageNumber |-> 1]>>,
                     pageNumber |-> 1,
                     progress |-> <<>>,
                     sceneIndex |-> 0,
                     hasImage |-> FALSE,
                     imagePosition |-> "null",
                     imageUrl |-> "null",
                     remainingParagraphs |-> <<>>,
                     isFirstPage |-> TRUE,
                     fittingParagraphs |-> <<>>,
                     scenePages |-> <<>>]
       IN  IF hasBody
           THEN Settle(s, SceneLoop(Report(start, 5)), id, body \cup {id})
           ELSE Settle(s, Throw(start, "surface"), id, body)
    /\ UNCHANGED <<storyData, scenes, offsetHeight, book>>
    /\ UNCHANGED pageVars

\* paginateScene resumes after `await this.measureFit(...)`.
ResumeMeasured(s) ==
    /\ run[s].pc = "measured"
    /\ Settle(s, LoopHead(PlacePage(run[s])), measureContainer, body)
    /\ UNCHANGED <<storyData, scenes, offsetHeight, book>>
    /\ UNCHANGED pageVars

\* compile resumes after `await this.paginateScene(...)`.
ResumePaginated(s) ==
    /\ run[s].pc = "paginated"
    /\ Settle(s, SceneLoop(AddScenePages(run[s])), measureContainer, body)
    /\ UNCHANGED <<storyData, scenes, offsetHeight, book>>
    /\ UNCHANGED pageVars

----------------------------------------------------------------------------
(* AudioManager (audio.js) and the scripts that drive it.  A speak call is    *)
(* kept with the text it was given and where it stands: awaiting fetch,       *)
(* awaiting response.blob(), its Audio playing, its utterance handed to       *)
(* speechSynthesis, or done (played or spoken to the end, paused, cancelled). *)

MaxSpeaks == 3

\* stop(): pause this.currentAudio and forget it, cancel speechSynthesis.
stop(a) ==
    [a EXCEPT !.currentAudio = 0,
              !.speaks = [c \in DOMAIN a.speaks |->
                            IF \/ c = a.currentAudio /\ a.speaks[c].pc = "playing"
                               \/ a.speaks[c].pc = "fallback"
                            THEN [a.speaks[c] EXCEPT !.pc = "done"]
                            ELSE a.speaks[c]]]

\* speak(text) up to its first await, the fetch of /api/tts.
speak(a, text) ==
    IF ~a.enabled \/ text = <<>> THEN a
    ELSE [stop(a) EXCEPT !.speaks = Append(@, [text |-> text, pc |-> "fetch"])]

\* toggle()
toggle(a) ==
    LET toggled == [a EXCEPT !.enabled = ~@] IN
    IF toggled.enabled THEN toggled ELSE stop(toggled)

\* The text playPageAudio hands to audio.speak for a page index: scene pages
\* are taken to start at index 2, one page per scene.
PageSceneText(pageIndex) ==
    LET sceneIndex == pageIndex - 2 IN
    IF sceneIndex >= 0 /\ sceneIndex < Len(scenes)
    THEN scenes[sceneIndex + 1].text
    ELSE <<>>

playPageAudio(a, pageIndex) ==
    IF ~a.enabled THEN a ELSE speak(stop(a), PageSceneText(pageIndex))

\* pageFlip after playPageAudio ran for the page: spoke is the text it handed
\* to audio.speak, empty when it handed none.
Flipped(a, pageIndex) ==
    [page |-> pageIndex,
     spoke |-> IF a.enabled THEN PageSceneText(pageIndex) ELSE <<>>]

\* pageFlip.on('flip'): the reader turned to another page.
Flip(pageIndex) ==
    /\ book # <<>>
    /\ pageIndex \in 0..(Len(book) - 1)
    /\ pageIndex # pageFlip.page
    /\ Len(audio.speaks) < MaxSpeaks
    /\ audio' = playPageAudio(audio, pageIndex)
    /\ pageFlip' = Flipped(audio, pageIndex)
    /\ UNCHANGED <<storyData, scenes, offsetHeight, book, measureContainer, body, run,
                   layouts, settled, storyPage, polling>>

\* btnAudio.onclick: toggle, then narrate the current page or stop.  pageFlip
\* exists once the book is rendered.
ClickAudio ==
    /\ Len(audio.speaks) < MaxSpeaks
    /\ LET toggled == toggle(audio) IN
       IF toggled.enabled /\ book # <<>>
       THEN /\ audio' = playPageAudio(toggled, pageFlip.page)
            /\ pageFlip' = Flipped(toggled, pageFlip.page)
       ELSE /\ audio' = stop(toggled)
            /\ pageFlip' = [pageFlip EXCEPT !.spoke = <<>>]
    /\ UNCHANGED <<storyData, scenes, offsetHeight, book, measureContainer, body, run,
                   layouts, settled, storyPage, polling>>

\* catch (error) { this.speakFallback(text) }: the utterance goes to
\* speechSynthesis.
speakFallback(a, c) == [a EXCEPT !.speaks[c].pc = "fallback"]

\* speak resumes after `await fetch(...)`: with a response that is ok, or in
\* its catch block.
FetchResponds(c, ok) ==
    /\ c \in DOMAIN audio.speaks
    /\ audio.speaks[c].pc = "fetch"
    /\ audio' = IF ok THEN [audio EXCEPT !.speaks[c].pc = "blob"]
                ELSE speakFallback(audio, c)
    /\ UNCHANGED <<bookVars, storyPage, polling>>

\* speak resumes after `await response.blob()`: the new Audio becomes
\* this.currentAudio and plays.
BlobArrives(c, ok) ==
    /\ c \in DOMAIN audio.speaks
    /\ audio.speaks[c].pc = "blob"
    /\ audio' = IF ok THEN [audio EXCEPT !.currentAudio = c, !.speaks[c].pc = "playing"]
                ELSE speakFallback(audio, c)
    /\ UNCHANGED <<bookVars, storyPage, polling>>

\* currentAudio.onended of the Audio of call c.
AudioEnded(c) ==
    /\ c \in DOMAIN audio.speaks
    /\ audio.speaks[c].pc = "playing"
    /\ audio' = [audio EXCEPT !.currentAudio = 0, !.speaks[c].pc = "done"]
    /\ UNCHANGED <<bookVars, storyPage, polling>>

\* speechSynthesis finished the utterance of call c.
UtteranceEnded(c) ==
    /\ c \in DOMAIN audio.speaks
    /\ audio.speaks[c].pc = "fallback"
    /\ audio' = [audio EXCEPT !.speaks[c].pc = "done"]
    /\ UNCHANGED <<bookVars, storyPage, polling>>

----------------------------------------------------------------------------
(* The story page (its inline script).  A polling chain is one call of        *)
(* startImagePolling with its closure variable delay: its timer is pending,   *)
(* its checkImage awaits the status request, its timer was cancelled, or it   *)
(* found the image ready.  imageCheckInterval holds the chain whose timer was *)
(* set last (0 is null).                                                      *)

MaxChains == 2
MaxTurns == 2
MaxKarma == 100

maxDelay == 10000

\* clearTimeout(handle): cancels the timer if it is still pending.
clearTimeout(p, handle) ==
    IF handle \in DOMAIN p.chains /\ p.chains[handle].pc = "timer"
    THEN [p EXCEPT !.chains[handle].pc = "cancelled"]
    ELSE p

startImagePolling(p) ==
    LET cleared == clearTimeout(p, p.imageCheckInterval) IN
    [cleared EXCEPT !.chains = Append(@, [pc |-> "timer", delay |-> 2000]),
                    !.imageCheckInterval = Len(p.chains) + 1]

\* updateStats: the karma label.  `stats.karma || 0` is 0 without a karma.
KarmaText(stats) ==
    LET karma == IF "karma" \in DOMAIN stats THEN stats.karma ELSE 0 IN
    IF karma > 30 THEN "Good"
    ELSE IF karma > 60 THEN "Heroic"
    ELSE IF karma < -30 THEN "Dark"
    ELSE IF karma < -60 THEN "Villainous"
    ELSE "Neutral"

Images == {"placeholder", "real"}

\* updateStoryView, the image part: set the image if the URL changed, start
\* polling when it is the placeholder.
ShowSceneImage(p, image) ==
    IF image = "placeholder"
    THEN startImagePolling([p EXCEPT !.sceneImage = "placeholder"])
    ELSE [p EXCEPT !.sceneImage = IF @ = "real" THEN "real" ELSE "loading"]

\* The narrative text the page speaks, for a scene or a streamed fragment.
NarrativeText == <<Run(CH, 190)>>

\* loadStory after its awaits: currentStory, currentScene, currentChoices,
\* updateStoryView(true).
LoadStory(stats, image) ==
    /\ ~storyPage.loaded
    /\ Len(audio.speaks) < MaxSpeaks
    /\ storyPage' = [storyPage EXCEPT !.loaded = TRUE,
                                      !.stats = stats,
                                      !.currentScene = 1,
                                      !.currentChoices = 1,
                                      !.disabled = FALSE,
                                      !.karmaText = KarmaText(stats)]
    /\ audio' = speak(audio, NarrativeText)
    /\ polling' = ShowSceneImage(polling, image)
    /\ UNCHANGED bookVars

\* toggleAudio of the story page.
ToggleAudio ==
    /\ audio' = toggle(audio)
    /\ UNCHANGED <<bookVars, storyPage, polling>>

\* makeChoice up to the end of its try block: the choices are disabled and
\* hidden, narration is stopped, the event stream is opened.  When opening
\* throws, the catch block enables and shows the choices again.
MakeChoice(opens) ==
    /\ storyPage.loaded
    /\ storyPage.choicesPanel = "flex" /\ ~storyPage.disabled
    /\ storyPage.eventSource # "open"
    /\ storyPage.currentScene < MaxTurns
    /\ audio' = IF audio.enabled THEN stop(audio) ELSE audio
    /\ storyPage' =
         IF opens
         THEN [storyPage EXCEPT !.disabled = TRUE,
                                !.choicesPanel = "none",
                                !.eventSource = "open",
                                !.outcome = "pending",
                                !.before = storyPage.currentScene]
         ELSE [storyPage EXCEPT !.disabled = FALSE,
                                !.choicesPanel = "flex",
                                !.outcome = "failed",
                                !.before = storyPage.currentScene]
    /\ UNCHANGED <<bookVars, polling>>

\* message listener, text_fragment or paragraph event: speak the fragment.
StreamFragment ==
    /\ storyPage.eventSource = "open"
    /\ Len(audio.speaks) < MaxSpeaks
    /\ audio' = IF audio.enabled THEN speak(audio, NarrativeText) ELSE audio
    /\ UNCHANGED <<bookVars, storyPage, polling>>

\* message listener, metadata event: close the stream, take the new scene and
\* its choices, show the choices unless the story is complete,
\* updateStoryView(false).
StreamMetadata(image, complete) ==
    /\ storyPage.eventSource = "open"
    /\ storyPage' = [storyPage EXCEPT !.eventSource = "closed",
                                      !.currentScene = @ + 1,
                                      !.currentChoices = @ + 1,
                                      !.choicesPanel = IF complete THEN "none" ELSE "flex",
                                      !.disabled = FALSE,
                                      !.karmaText = KarmaText(storyPage.stats),
                                      !.outcome = "done"]
    /\ polling' = ShowSceneImage(polling, image)
    /\ UNCHANGED <<bookVars, audio>>

\* error listener: close the stream and enable the choice buttons.
StreamError ==
    /\ storyPage.eventSource = "open"
    /\ storyPage' = [storyPage EXCEPT !.eventSource = "closed",
                                      !.disabled = FALSE,
                                      !.outcome = "failed"]
    /\ UNCHANGED <<bookVars, audio, polling>>

\* The timer of chain c fires: checkImage runs up to its await of the status
\* request.
TimerFires(c) ==
    /\ c \in DOMAIN polling.chains
    /\ polling.chains[c].pc = "timer"
    /\ polling' = [polling EXCEPT !.chains[c].pc = "fetch"]
    /\ UNCHANGED <<bookVars, audio, storyPage>>

RetryDelay(delay) == IF delay + 1000 < maxDelay THEN delay + 1000 ELSE maxDelay

\* checkImage resumes with the status: the image is ready and is set, or it
\* is not (or the request failed) and the check is scheduled again.
CheckResponds(c, ready) ==
    /\ c \in DOMAIN polling.chains
    /\ polling.chains[c].pc = "fetch"
    /\ polling' = IF ready
                  THEN [polling EXCEPT !.chains[c].pc = "ready",
                                       !.sceneImage = IF @ = "real" THEN "real"
                                                      ELSE "loading"]
                  ELSE [polling EXCEPT !.chains[c].pc = "timer",
                                       !.chains[c].delay = RetryDelay(@),
                                       !.imageCheckInterval = c]
    /\ UNCHANGED <<bookVars, audio, storyPage>>

\* imageLoaded: the load event of the scene image, for an image that is not
\* the placeholder.
ImageLoaded ==
    /\ polling.sceneImage = "loading"
    /\ polling' = [clearTimeout(polling, polling.imageCheckInterval)
                       EXCEPT !.sceneImage = "real"]
    /\ UNCHANGED <<bookVars, audio, storyPage>>

\* The pages' scripts after load: audio off, nothing spoken, the cover shown,
\* no story loaded, no polling.
PageInit ==
    /\ audio = [enabled |-> FALSE, currentAudio |-> 0, speaks |-> <<>>]
    /\ pageFlip = [page |-> 0, spoke |-> <<>>]
    /\ storyPage = [loaded |-> FALSE,
                    stats |-> [none |-> TRUE],
                    currentScene |-> 0,
                    currentChoices |-> 0,
                    eventSource |-> "none",
                    choicesPanel |-> "flex",
                    disabled |-> FALSE,
                    karmaText |-> "",
                    outcome |-> "none",
                    before |-> 0]
    /\ polling = [imageCheckInterval |-> 0, chains |-> <<>>, sceneImage |-> "none"]

----------------------------------------------------------------------------

Init ==
    /\ storyData \in [id : {"story"}, ending_type : EndingTypes]
    /\ scenes \in StoriesUpTo(MaxScenes, MaxWords)
    /\ offsetHeight \in [Measured(scenes) -> Heights]
    /\ book = <<>>
    /\ measureContainer = 0
    /\ body = {}
    /\ run = [s \in Slots |-> Idle]
    /\ layouts = <<>>
    /\ settled = <<>>
    /\ PageInit

\* The caller starts a compilation when none is in flight, with a callback
\* that does not throw, in a parsed document.
Next ==
    \/ RenderBook
    \/ InFlight = {} /\ Compile(1, 0, TRUE)
    \/ ResumeMeasured(1)
    \/ ResumePaginated(1)

Spec == Init /\ [][Next]_vars


\* The back cover for the ending types a story can carry, short stories.
EndingTags ==
    {"", "triumph", "bittersweet", "mystery", "tragedy", "comedy", "Triumph",
     "MYSTERY", "saga"}

InitEnding ==
    /\ storyData \in [id : {"story"}, ending_type : EndingTags]
    /\ scenes \in StoriesUpTo(1, 1)
    /\ offsetHeight \in [Measured(scenes) -> Heights]
    /\ book = <<>>
    /\ measureContainer = 0
    /\ body = {}
    /\ run = [s \in Slots |-> Idle]
    /\ layouts = <<>>
    /\ settled = <<>>
    /\ PageInit

SpecEnding == InitEnding /\ [][Next]_vars

\* Long stories for the position pattern: illustrated one-page scenes, among
\* them a few that are skipped by compile (no text), split by renderBook or
\* without illustration.
PlainScene == [text |-> <<Run(CH, 190)>>, image_url |-> "img"]

SpecialScenes ==
    {[text |-> <<>>, image_url |-> "img"],
     [text |-> <<Run(CH, 492), Run(NL, 2), Run(CH, 492)>>, image_url |-> "img"],
     [text |-> <<Run(CH, 190)>>, image_url |-> ""]}

RECURSIVE PatternStories(_, _)
PatternStories(n, special) ==
    IF n = 0 THEN {<<>>}
    ELSE {<<PlainScene>> \o rest : rest \in PatternStories(n - 1, special)}
         \cup (IF special = 0 THEN {}
               ELSE {<<x>> \o rest :
                        x \in SpecialScenes, rest \in PatternStories(n - 1, special - 1)})

InitPattern ==
    /\ storyData \in [id : {"story"}, ending_type : {""}]
    /\ scenes \in UNION {PatternStories(n, MaxSpecial) : n \in 0..MaxPatternScenes}
    /\ offsetHeight \in [Measured(scenes) -> {13000}]
    /\ book = <<>>
    /\ measureContainer = 0
    /\ body = {}
    /\ run = [s \in Slots |-> Idle]
    /\ layouts = <<>>
    /\ settled = <<>>
    /\ PageInit

SpecPattern == InitPattern /\ [][Next]_vars

\* Compilations as the BookCompiler itself admits them: a second call while
\* one is in flight, a callback that throws, a null scene, a document
\* without body.  The stories are short, the calls are what varies.
RunScenes ==
    {NullScene,
     [text |-> <<Run(CH, 190)>>, image_url |-> ""],
     [text |-> <<Run(CH, 190), Run(NL, 2), Run(CH, 492)>>, image_url |-> "img"]}

RunStories == UNION {[1..n -> RunScenes] : n \in 0..MaxScenes}

FailAts == {0, 1, 2}

InitRuns ==
    /\ storyData \in [id : {"story"}, ending_type : {""}]
    /\ scenes \in RunStories
    /\ offsetHeight \in [Measured(scenes) -> Heights]
    /\ book = <<>>
    /\ measureContainer = 0
    /\ body = {}
    /\ run = [s \in Slots |-> Idle]
    /\ layouts = <<>>
    /\ settled = <<>>
    /\ PageInit

NextRuns ==
    \E s \in Slots :
        \/ \E failAt \in FailAts, hasBody \in BOOLEAN : Compile(s, failAt, hasBody)
        \/ ResumeMeasured(s)
        \/ ResumePaginated(s)

SpecRuns == InitRuns /\ [][NextRuns]_vars

\* The reader of the book page: stories of an illustrated scene that
\* renderBook splits, a short scene and a scene without text; the reader turns
\* pages and switches the narration on and off while the TTS service answers.
ReaderScenes ==
    {[text |-> <<Run(CH, 492), Run(NL, 2), Run(CH, 492)>>, image_url |-> "img"],
     [text |-> <<Run(CH, 190)>>, image_url |-> ""],
     [text |-> <<>>, image_url |-> ""]}

InitReader ==
    /\ storyData \in [id : {"story"}, ending_type : {""}]
    /\ scenes \in UNION {[1..n -> ReaderScenes] : n \in 1..MaxScenes}
    /\ offsetHeight \in [Measured(scenes) -> {13000}]
    /\ book = <<>>
    /\ measureContainer = 0
    /\ body = {}
    /\ run = [s \in Slots |-> Idle]
    /\ layouts = <<>>
    /\ settled = <<>>
    /\ PageInit

NextReader ==
    \/ RenderBook
    \/ \E pageIndex \in 0..(2 * MaxScenes + 2) : Flip(pageIndex)
    \/ ClickAudio
    \/ \E c \in 1..MaxSpeaks, ok \in BOOLEAN : FetchResponds(c, ok) \/ BlobArrives(c, ok)
    \/ \E c \in 1..MaxSpeaks : AudioEnded(c) \/ UtteranceEnded(c)

SpecReader == InitReader /\ [][NextReader]_vars

\* The story page: one story without paginated scenes around it; the player
\* makes choices while the image service and the event stream answer.
InitStory ==
    /\ storyData \in [id : {"story"}, ending_type : {""}]
    /\ scenes = <<>>
    /\ offsetHeight = <<>>
    /\ book = <<>>
    /\ measureContainer = 0
    /\ body = {}
    /\ run = [s \in Slots |-> Idle]
    /\ layouts = <<>>
    /\ settled = <<>>
    /\ PageInit

NextStory ==
    \/ \E image \in Images : LoadStory([karma |-> 0], image)
    \/ ToggleAudio
    \/ \E opens \in BOOLEAN : MakeChoice(opens)
    \/ StreamFragment
    \/ \E image \in Images, complete \in BOOLEAN : StreamMetadata(image, complete)
    \/ StreamError
    \/ \E c \in 1..MaxChains : TimerFires(c)
    \/ \E c \in 1..MaxChains, ready \in BOOLEAN : CheckResponds(c, ready)
    \/ ImageLoaded

SpecStory == InitStory /\ [][NextStory]_vars

\* The stats bar: stories with every karma, and without one.
Stats == [karma : -MaxKarma..MaxKarma] \cup {[none |-> TRUE]}

NextStats == \E stats \in Stats, image \in Images : LoadStory(stats, image)

SpecStats == InitStory /\ [][NextStats]_vars

----------------------------------------------------------------------------
(* Reading a page list *)

IsContent(p) == p.type = "content"

RECURSIVE Concat(_)
Concat(ss) == IF ss = <<>> THEN <<>> ELSE Head(ss) \o Concat(Tail(ss))

SceneIndices == 0..(Len(scenes) - 1)

SceneAt(i) == scenes[i + 1]

\* The content pages renderBook emitted for scene i, in page order.
BookScenePages(i) == SelectSeq(book, LAMBDA p : IsContent(p) /\ p.scene = i)

\* The content pages of a compiled page list that carry scene index i.
LayoutScenePages(pages, i) == SelectSeq(pages, LAMBDA p : IsContent(p) /\ p.sceneIndex = i)

ParagraphsOn(ps) == Concat([k \in 1..Len(ps) |-> ps[k].paragraphs])

ContentOf(pages) == SelectSeq(pages, IsContent)

Rendered == book # <<>>

----------------------------------------------------------------------------
(* C1 - Paragraph conservation of the Layout Compiler: in every layout that   *)
(* compile returns, the paragraphs of the content pages of a scene with at    *)
(* least one paragraph, concatenated in page order, are exactly the scene's   *)
(* non-empty paragraphs in their original order.                              *)
CompilerConservation ==
    \A l \in 1..Len(layouts) : \A i \in SceneIndices :
        Paragraphs(SceneAt(i).text) # <<>> =>
            ParagraphsOn(LayoutScenePages(layouts[l].pages, i)) = Paragraphs(SceneAt(i).text)

(* C2 - Paragraph conservation of the Heuristic Paginator: the paragraphs of  *)
(* the content pages renderBook emits for a scene, concatenated in page       *)
(* order, are exactly the scene's non-empty paragraphs (trimmed, as they are  *)
(* shown) in their original order, in the single-page and the split branch.   *)
HeuristicConservation ==
    Rendered =>
        \A i \in SceneIndices :
            /\ ParagraphsOn(BookScenePages(i)) = TrimAll(Paragraphs(SceneAt(i).text))
            /\ Concat([k \in 1..Len(BookScenePages(i)) |-> BookScenePages(i)[k].paras])
                   = Paragraphs(SceneAt(i).text)

\* A split scene whose first page holds one force-placed paragraph and one of
\* whose continuation pages holds two paragraphs.
HeuristicConservationWitness ==
    /\ Rendered
    /\ \E i \in SceneIndices :
        LET ps == BookScenePages(i) IN
        /\ Len(ps) >= 2
        /\ Len(ps[1].paras) = 1
        /\ Length(ps[1].paras[1]) > CHARS_WITH_IMAGE
        /\ \E k \in 2..Len(ps) : Len(ps[k].paras) = 2

FirstPageAloneShowsImage(ps) ==
    /\ Len(ps) >= 1
    /\ ps[1].hasImage
    /\ \A k \in 2..Len(ps) : ~ps[k].hasImage

(* C3 - Illustration placement.  As claimed: for every scene that has an      *)
(* illustration, exactly one content page of the scene shows it, and that is  *)
(* the scene's first page - in the book and in every compiled layout.         *)
IllustrationOnEveryIllustratedScene ==
    /\ Rendered =>
        \A i \in SceneIndices :
            HasImage(SceneAt(i)) => FirstPageAloneShowsImage(BookScenePages(i))
    /\ \A l \in 1..Len(layouts) : \A i \in SceneIndices :
            HasImage(SceneAt(i)) =>
                FirstPageAloneShowsImage(LayoutScenePages(layouts[l].pages, i))

(* C3, amended - in the book as claimed; in a compiled layout for every scene *)
(* that has an illustration and at least one paragraph (the compiler skips a  *)
(* scene without paragraphs, which then has no page at all).                   *)
IllustrationPlacement ==
    /\ Rendered =>
        \A i \in SceneIndices :
            HasImage(SceneAt(i)) => FirstPageAloneShowsImage(BookScenePages(i))
    /\ \A l \in 1..Len(layouts) : \A i \in SceneIndices :
            HasImage(SceneAt(i)) /\ Paragraphs(SceneAt(i).text) # <<>> =>
                FirstPageAloneShowsImage(LayoutScenePages(layouts[l].pages, i))

\* An illustrated scene on several pages in the book and in a layout.
IllustrationPlacementWitness ==
    /\ Rendered
    /\ layouts # <<>>
    /\ \E i \in SceneIndices :
        /\ HasImage(SceneAt(i))
        /\ Len(BookScenePages(i)) >= 2
        /\ Len(LayoutScenePages(layouts[1].pages, i)) >= 2

(* C4 - Hysteresis: a scene with an illustration whose text is at most 684    *)
(* characters long is one content page with all its paragraphs and the        *)
(* illustration; it has more than one page only when its text is longer.      *)
Hysteresis ==
    Rendered =>
        \A i \in SceneIndices :
            LET ps == BookScenePages(i)
                L == Length(SceneAt(i).text)
            IN  HasImage(SceneAt(i)) =>
                    /\ L <= 684 =>
                        /\ Len(ps) = 1
                        /\ ps[1].paragraphs = TrimAll(Paragraphs(SceneAt(i).text))
                        /\ ps[1].hasImage
                    /\ Len(ps) > 1 => L > 684

\* An illustrated scene of exactly 684 characters in two paragraphs, rendered.
HysteresisWitness ==
    /\ Rendered
    /\ \E i \in SceneIndices :
        /\ HasImage(SceneAt(i))
        /\ Length(SceneAt(i).text) = 684
        /\ Len(Paragraphs(SceneAt(i).text)) = 2
        /\ Len(BookScenePages(i)) = 1

Capacity(p) == IF p.continuation THEN CHARS_WITHOUT_IMAGE ELSE CHARS_WITH_IMAGE

OversizeAlone(p) ==
    (p.hasImage \/ p.continuation) =>
        \A j \in 1..Len(p.paras) : Length(p.paras[j]) > Capacity(p) => Len(p.paras) = 1

(* C5 - Force-placement.  As claimed: every scene with at least one paragraph *)
(* gets at least one content page, and a paragraph longer than the capacity   *)
(* of its page (380 on an illustrated first page, 780 on a continuation page) *)
(* is the only paragraph on that page.                                        *)
ForcePlacementOnEveryPage ==
    Rendered =>
        \A i \in SceneIndices :
            LET ps == BookScenePages(i) IN
            Paragraphs(SceneAt(i).text) # <<>> =>
                /\ Len(ps) >= 1
                /\ \A k \in 1..Len(ps) : OversizeAlone(ps[k])

(* C5, amended - every scene with at least one paragraph gets at least one    *)
(* content page; in a scene that is split (illustrated, text longer than 684  *)
(* characters), a paragraph longer than the capacity of its page is the only  *)
(* paragraph on that page.                                                     *)
ForcePlacement ==
    Rendered =>
        \A i \in SceneIndices :
            LET ps == BookScenePages(i) IN
            Paragraphs(SceneAt(i).text) # <<>> =>
                /\ Len(ps) >= 1
                /\ HasImage(SceneAt(i)) /\ Length(SceneAt(i).text) > 684 =>
                        \A k \in 1..Len(ps) : OversizeAlone(ps[k])

\* A split scene with a force-placed first page and a force-placed
\* continuation page, paragraphs still queued behind the first.
ForcePlacementWitness ==
    /\ Rendered
    /\ \E i \in SceneIndices :
        LET ps == BookScenePages(i) IN
        /\ Len(ps) >= 2
        /\ Length(ps[1].paras[1]) > CHARS_WITH_IMAGE
        /\ \E k \in 2..Len(ps) : Length(ps[k].paras[1]) > CHARS_WITHOUT_IMAGE

FirstDoesNotFit(p) ==
    MeasureParagraph(p.paragraphs[1], p.isFirstPageOfScene /\ ~p.hasImage)
        > AvailableHeight(p.hasImage)

WellFilled(p) ==
    /\ Len(p.paragraphs) >= 1
    /\ FirstDoesNotFit(p) => Len(p.paragraphs) = 1

RunPages == IF run[1].pc = "idle" THEN <<>> ELSE run[1].pages

(* C6 - No empty page in the compiled layout: every content page the compiler *)
(* makes holds at least one paragraph, and a page whose first paragraph does  *)
(* not fit the page's available height holds exactly that one paragraph.      *)
NoEmptyCompiledPage ==
    /\ \A l \in 1..Len(layouts) : \A k \in 1..Len(layouts[l].pages) :
            IsContent(layouts[l].pages[k]) => WellFilled(layouts[l].pages[k])
    /\ \A k \in 1..Len(RunPages) : IsContent(RunPages[k]) => WellFilled(RunPages[k])

\* A returned layout with a force-placed paragraph in a scene of several
\* paragraphs, on a first page and on a continuation page.
NoEmptyCompiledPageWitness ==
    /\ layouts # <<>>
    /\ \E i \in SceneIndices :
        LET ps == LayoutScenePages(layouts[1].pages, i) IN
        /\ Len(Paragraphs(SceneAt(i).text)) >= 2
        /\ Len(ps) >= 2
        /\ FirstDoesNotFit(ps[1])
        /\ \E k \in 2..Len(ps) : FirstDoesNotFit(ps[k])

(* C7 - Compiler idempotence: all the layouts compile returns for the same    *)
(* story, scenes and measurements have the same page list and the same page   *)
(* count; only compiledAt differs.                                            *)
CompilerIdempotent ==
    \A a, b \in 1..Len(layouts) :
        /\ layouts[a].pages = layouts[b].pages
        /\ layouts[a].totalPages = layouts[b].totalPages
        /\ [layouts[a] EXCEPT !.compiledAt = 0] = [layouts[b] EXCEPT !.compiledAt = 0]

\* Two layouts returned at different times, with a scene on several pages.
CompilerIdempotentWitness ==
    /\ Len(layouts) = 2
    /\ layouts[1].compiledAt # layouts[2].compiledAt
    /\ Len(ContentOf(layouts[2].pages)) >= 3

NumberedFromTwo(cs) == \A k \in 1..Len(cs) : cs[k].pageNumber = k + 1

(* C8 - Page-number monotonicity: in the book and in every compiled layout    *)
(* the content pages are numbered 2, 3, 4, ... in page order: the first is    *)
(* numbered 2 and each next one 1 more than the one before it.                *)
PageNumbersConsecutive ==
    /\ Rendered => NumberedFromTwo(ContentOf(book))
    /\ \A l \in 1..Len(layouts) : NumberedFromTwo(ContentOf(layouts[l].pages))

\* A book and a layout of two scenes, one of them on several pages.
PageNumbersConsecutiveWitness ==
    /\ Rendered
    /\ layouts # <<>>
    /\ Len(scenes) = 2
    /\ Len(BookScenePages(0)) >= 2 /\ Len(BookScenePages(1)) >= 1
    /\ Len(LayoutScenePages(layouts[1].pages, 0)) >= 2
    /\ Len(LayoutScenePages(layouts[1].pages, 1)) >= 1

(* C9 - Fixed page positions in a compiled layout: the front cover first, the *)
(* title page second, one back cover last, content pages in between, and the  *)
(* back cover carries the story's ending type, or 'default' without one.      *)
FixedPositions ==
    \A l \in 1..Len(layouts) :
        LET pages == layouts[l].pages
            n == Len(pages)
        IN  /\ n >= 3
            /\ pages[1] = [type |-> "cover", side |-> "front"]
            /\ pages[2].type = "title"
            /\ pages[n].type = "back"
            /\ \A k \in 3..(n - 1) : pages[k].type = "content"
            /\ storyData.ending_type # "" => pages[n].endingType = storyData.ending_type
            /\ storyData.ending_type = "" => pages[n].endingType = "default"

\* A layout with content pages of a story that has no ending type.
FixedPositionsWitness ==
    /\ layouts # <<>>
    /\ storyData.ending_type = ""
    /\ Len(layouts[1].pages) >= 5

Grouped(cs) ==
    \A k \in 1..Len(cs) :
        LET first == k = 1 \/ cs[k - 1].sceneIndex # cs[k].sceneIndex IN
        /\ cs[k].sceneIndex \in SceneIndices
        /\ k > 1 => cs[k - 1].sceneIndex <= cs[k].sceneIndex
        /\ \A j \in 1..k : cs[j].sceneIndex = cs[k].sceneIndex =>
                \A m \in j..k : cs[m].sceneIndex = cs[k].sceneIndex
        /\ cs[k].isFirstPageOfScene = first
        /\ cs[k].isContinuation = ~first

(* C10 - Scene grouping in a compiled layout: every content page carries the  *)
(* index of one scene, the index never decreases along the page list (so the  *)
(* pages of a scene are contiguous), and in each scene exactly the first page *)
(* is flagged isFirstPageOfScene and not isContinuation, every later page     *)
(* isContinuation and not isFirstPageOfScene.                                 *)
SceneGrouping ==
    \A l \in 1..Len(layouts) : Grouped(ContentOf(layouts[l].pages))

\* A layout in which a scene on three pages is followed by another scene, or
\* a scene on two pages by one more.
SceneGroupingWitness ==
    /\ layouts # <<>>
    /\ Len(LayoutScenePages(layouts[1].pages, 0)) >= 2
    /\ Len(LayoutScenePages(layouts[1].pages, 1)) >= 1

----------------------------------------------------------------------------
\* The scenes whose text yields no paragraph (empty, missing or white space).
ZeroParagraph(i) == Paragraphs(SceneAt(i).text) = <<>>

(* C14 - Zero-paragraph scenes are skipped: a scene whose text yields no      *)
(* paragraph contributes no content page (and so consumes no page number),    *)
(* in the pages renderBook emits and in every layout compile returns alike.   *)
ZeroParagraphSkipped ==
    \A i \in SceneIndices :
        ZeroParagraph(i) =>
            /\ Rendered => BookScenePages(i) = <<>>
            /\ \A l \in 1..Len(layouts) : LayoutScenePages(layouts[l].pages, i) = <<>>

----------------------------------------------------------------------------
RECURSIVE SumLengths(_)
SumLengths(ps) == IF ps = <<>> THEN 0 ELSE Length(Head(ps)) + SumLengths(Tail(ps))

\* The scenes renderBook lays out in its split branch.
InSplitBranch(i) == HasImage(SceneAt(i)) /\ NeedsSplit(SceneAt(i))

(* C19 - Heuristic capacity rule: in the split branch the lengths of the      *)
(* paragraphs on the first, illustrated page sum to at most 380 characters    *)
(* and on every continuation page to at most 780, unless the page holds       *)
(* exactly one paragraph; a page that is not the scene's last (paragraphs     *)
(* were still queued when it was closed) is one that the next paragraph       *)
(* would have pushed above its capacity.  Lengths are those of the queued     *)
(* paragraphs, as the filling loop counts them.                               *)
HeuristicCapacity ==
    Rendered =>
        \A i \in SceneIndices :
            InSplitBranch(i) =>
                LET ps == BookScenePages(i) IN
                \A k \in 1..Len(ps) :
                    LET cap == IF k = 1 THEN 380 ELSE 780
                        sum == SumLengths(ps[k].paras)
                    IN  /\ ps[k].paras # <<>>
                        /\ sum <= cap \/ Len(ps[k].paras) = 1
                        /\ k < Len(ps) => sum + Length(ps[k + 1].paras[1]) > cap

\* A split scene whose first page is filled to exactly 380 characters by two
\* paragraphs and closed in front of a third.
HeuristicCapacityWitness ==
    /\ Rendered
    /\ \E i \in SceneIndices :
        LET ps == BookScenePages(i) IN
        /\ InSplitBranch(i)
        /\ Len(ps) >= 2
        /\ Len(ps[1].paras) = 2
        /\ SumLengths(ps[1].paras) = 380

----------------------------------------------------------------------------
\* The heights measureParagraph returned for the paragraphs of a layout page:
\* the rendered heights, plus the drop-cap extra (20.16 px) for the first
\* paragraph when the page opens a scene without illustration.
RECURSIVE SumHeights(_)
SumHeights(ps) ==
    IF ps = <<>> THEN 0 ELSE offsetHeight[Trim(Head(ps))] + SumHeights(Tail(ps))

MeasuredHeight(p) ==
    SumHeights(p.paragraphs)
    + (IF p.isFirstPageOfScene /\ ~HasImage(SceneAt(p.sceneIndex)) THEN 2016 ELSE 0)

\* 261 px beside an illustration, 556 px on a full page.
HeightOf(p) ==
    IF p.isFirstPageOfScene /\ HasImage(SceneAt(p.sceneIndex)) THEN 26100 ELSE 55600

WithinHeight(cs) ==
    \A k \in 1..Len(cs) :
        Len(cs[k].paragraphs) > 1 =>
            /\ MeasuredHeight(cs[k]) <= HeightOf(cs[k])
            /\ k < Len(cs) /\ cs[k + 1].sceneIndex = cs[k].sceneIndex =>
                    MeasuredHeight(cs[k]) + offsetHeight[Trim(cs[k + 1].paragraphs[1])]
                        > HeightOf(cs[k])

(* C20 - Compiler capacity rule: on every content page of a compiled layout   *)
(* that holds more than one paragraph, the measured heights of its paragraphs *)
(* (drop-cap extra counted for the first paragraph of the first page of an    *)
(* illustration-free scene) sum to at most the page's available height: the   *)
(* illustrated height exactly on the first page of a scene with illustration, *)
(* the full-page height on every other page; and such a page followed by      *)
(* another page of its scene was closed in front of a paragraph that would    *)
(* not have fitted that height.                                               *)
CompilerCapacity ==
    \A l \in 1..Len(layouts) : WithinHeight(ContentOf(layouts[l].pages))

\* A layout with an illustrated first page of two paragraphs followed by a
\* continuation page of its scene.
CompilerCapacityWitness ==
    /\ layouts # <<>>
    /\ \E k \in 1..(Len(layouts[1].pages) - 1) :
        LET p == layouts[1].pages[k]
            q == layouts[1].pages[k + 1]
        IN  /\ IsContent(p) /\ IsContent(q)
            /\ p.hasImage /\ Len(p.paragraphs) = 2
            /\ q.sceneIndex = p.sceneIndex

----------------------------------------------------------------------------
\* The white space a text starts with, and the newlines in it.
RECURSIVE LeadingSpace(_)
LeadingSpace(t) ==
    IF t # <<>> /\ IsSpace(Head(t)) THEN <<Head(t)>> \o LeadingSpace(Tail(t)) ELSE <<>>

RECURSIVE Newlines(_)
Newlines(t) ==
    IF t = <<>> THEN 0 ELSE (IF Head(t).c = NL THEN Head(t).n ELSE 0) + Newlines(Tail(t))

\* The blank-line-separated runs of a text: a stretch of white space with two
\* or more newlines in it holds one or more blank lines (lines that are empty
\* or hold only white space) and separates two runs.
RECURSIVE BlankLineSplit(_, _, _)
BlankLineSplit(t, cur, acc) ==
    IF t = <<>> THEN Append(acc, cur)
    ELSE IF IsSpace(Head(t))
         THEN LET ws == LeadingSpace(t) IN
              IF Newlines(ws) >= 2
              THEN BlankLineSplit(Slice(t, Len(ws)), <<>>, Append(acc, cur))
              ELSE BlankLineSplit(Slice(t, Len(ws)), cur \o ws, acc)
         ELSE BlankLineSplit(Tail(t), Append(cur, Head(t)), acc)

\* The contract of the Paragraph Splitter: the runs, trimmed, empty ones dropped.
BlankLineParagraphs(text) == TrimAll(Filter(BlankLineSplit(text, <<>>, <<>>)))

IsParagraphOf(p, text) ==
    \E j \in 1..Len(BlankLineParagraphs(text)) : BlankLineParagraphs(text)[j] = p

(* C17 - Paragraph Splitter contract: the paragraph list renderBook derives   *)
(* from a scene text is the ordered sequence of the text's blank-line-        *)
(* separated runs, each non-empty and without leading or trailing white       *)
(* space, and every paragraph compile puts on a page of a scene is one of     *)
(* these runs of the scene's text.                                            *)
SplitterContract ==
    \A i \in SceneIndices :
        /\ Rendered =>
            Concat([k \in 1..Len(BookScenePages(i)) |-> BookScenePages(i)[k].paras])
                = BlankLineParagraphs(SceneAt(i).text)
        /\ \A l \in 1..Len(layouts) :
            LET ps == ParagraphsOn(LayoutScenePages(layouts[l].pages, i)) IN
            \A k \in 1..Len(ps) :
                /\ ps[k] # <<>>
                /\ Trim(ps[k]) = ps[k]
                /\ IsParagraphOf(ps[k], SceneAt(i).text)

----------------------------------------------------------------------------
(* C11 - Guaranteed release of the measurement surface: whenever a run of     *)
(* compile that got its container attached ends, by returning a layout or by  *)
(* an error thrown while measuring, paginating or reporting progress, that    *)
(* container is no longer in the document and this.measureContainer is null.  *)
SurfaceReleased ==
    \A k \in 1..Len(settled) :
        settled[k].reason # "surface" =>
            /\ ~settled[k].attached
            /\ settled[k].field = 0

----------------------------------------------------------------------------
(* C12 - Per-scene error containment: no run of compile ends in the error of  *)
(* one scene (reading the scene's data or measuring its paragraphs threw);    *)
(* the scene is skipped and the layout the run returns holds the pages of     *)
(* every other scene that has paragraphs.                                     *)
SceneErrorContained ==
    /\ \A k \in 1..Len(settled) : settled[k].reason \notin {"scene", "measure"}
    /\ \A l \in 1..Len(layouts) : \A i \in SceneIndices :
        ~IsNull(SceneAt(i)) /\ ~ZeroParagraph(i) =>
            LayoutScenePages(layouts[l].pages, i) # <<>>

----------------------------------------------------------------------------
Fulfilled == {k \in 1..Len(settled) : settled[k].state = "fulfilled"}

Complete(pages) ==
    /\ pages[Len(pages)].type = "back"
    /\ \A i \in SceneIndices :
        /\ ~IsNull(SceneAt(i))
        /\ ~ZeroParagraph(i) => LayoutScenePages(pages, i) # <<>>

(* C13 - No partial layout: a run of compile that fails (no measurement       *)
(* surface can be created, a measurement, a scene or the progress callback    *)
(* throws) ends with its promise rejected with that error and returns no      *)
(* layout; every layout returned comes from a run that met no error, holds    *)
(* the pages of every scene with paragraphs and ends with the back cover.     *)
NoPartialLayout ==
    /\ Len(layouts) = Cardinality(Fulfilled)
    /\ \A k \in 1..Len(settled) :
        (settled[k].state = "fulfilled") = (settled[k].reason = "none")
    /\ \A l \in 1..Len(layouts) : Complete(layouts[l].pages)

\* One run was rejected by a measurement that threw, another returned a layout.
NoPartialLayoutWitness ==
    /\ layouts # <<>>
    /\ \E k \in 1..Len(settled) :
        settled[k].state = "rejected" /\ settled[k].reason = "measure"

----------------------------------------------------------------------------
(* C15 - Measurement surface under concurrent runs: while a run of compile is *)
(* in flight it has measured only in the container it created, and no other   *)
(* run has removed that container from the document or set                    *)
(* this.measureContainer to null.                                             *)
SurfaceNotShared ==
    \A s \in InFlight :
        /\ run[s].measuredIn \subseteq {run[s].container}
        /\ run[s].container \in body
        /\ measureContainer # 0

----------------------------------------------------------------------------
\* The tags formatEndingType gives a label of their own, in lower case.
Recognised == {"triumph", "bittersweet", "mystery", "tragedy", "comedy"}

BackCoverOf(pages) == pages[Len(pages)]

(* C18 - Ending Classifier consistency: on the back cover renderBook emits,   *)
(* the label and the quote come from the same classification of the ending    *)
(* tag: a tag formatEndingType recognises (triumph, bittersweet, mystery,     *)
(* tragedy, comedy, in any letter case) has that tag's label and a quote of   *)
(* that tag's own pool, every other tag (or none) has the default label and a *)
(* quote of the default pool; the quote is one of the three of its pool.      *)
EndingConsistent ==
    Rendered =>
        LET back == BackCoverOf(book)
            tag == ToLowerCase(storyData.ending_type)
        IN  /\ back.quote.n \in 1..3
            /\ tag \in Recognised =>
                    /\ back.label = formatted[tag]
                    /\ back.quote.pool = tag
            /\ tag \notin Recognised =>
                    /\ back.label = "A Tale Complete"
                    /\ back.quote.pool = "default"

----------------------------------------------------------------------------
\* Element i mod 6 of (top, top, bottom, top, bottom, top)
PatternAt(i) == IF i % 6 \in {2, 4} THEN "bottom" ELSE "top"

(* C16 - Illustration position pattern: the illustration of the scene with    *)
(* index i is placed at element i mod 6 of (top, top, bottom, top, bottom,    *)
(* top), on the page renderBook emits and on the page compile emits, whatever *)
(* the scene's text length and page count and however many scenes before it   *)
(* were skipped or split; a page without illustration has no position.        *)
PositionPattern ==
    /\ \A k \in 1..Len(book) :
        IsContent(book[k]) =>
            book[k].imagePosition =
                (IF book[k].hasImage THEN PatternAt(book[k].scene) ELSE "null")
    /\ \A l \in 1..Len(layouts) : \A k \in 1..Len(layouts[l].pages) :
        LET p == layouts[l].pages[k] IN
        IsContent(p) =>
            p.imagePosition = (IF p.hasImage THEN PatternAt(p.sceneIndex) ELSE "null")

\* A story of seven scenes, rendered and compiled: the scene with index 1 was
\* skipped by compile, the one with index 0 split by renderBook, the scenes
\* with index 2, 4 and 6 show their illustration in both.
PositionPatternWitness ==
    /\ Rendered
    /\ layouts # <<>>
    /\ Len(scenes) = 7
    /\ Len(BookScenePages(0)) >= 2
    /\ LayoutScenePages(layouts[1].pages, 1) = <<>>
    /\ \A i \in {2, 4, 6} :
        /\ BookScenePages(i)[1].hasImage
        /\ LayoutScenePages(layouts[1].pages, i)[1].hasImage

----------------------------------------------------------------------------
(* C21 - Total page count of the layout: in every layout compile returns,     *)
(* totalPages is the number of entries of the layout's page list (front       *)
(* cover, title page, content pages and back cover).                          *)
TotalPagesCounted ==
    \A l \in 1..Len(layouts) : layouts[l].totalPages = Len(layouts[l].pages)

----------------------------------------------------------------------------
----------------------------------------------------------------------------
Percents(k) == [j \in 1..Len(settled[k].progress) |-> settled[k].progress[j].percent]

\* The values a call passed to onProgress are within 0..100, never decrease
\* and start with 5.
ProgressOrdered(k) ==
    LET p == Percents(k) IN
    /\ \A j \in 1..Len(p) : p[j] \in 0..100
    /\ \A j \in 1..Len(p) - 1 : p[j] <= p[j + 1]
    /\ Len(p) > 0 => p[1] = 5

\* A fulfilled call reported 100 once, last, after removeMeasureContainer,
\* and only values below 100 before, while the container was still there.
ProgressCompleted(k) ==
    LET p == settled[k].progress IN
    /\ Len(p) >= 2
    /\ p[Len(p)].percent = 100 /\ p[Len(p)].cleaned
    /\ \A j \in 1..Len(p) - 1 : p[j].percent < 100 /\ ~p[j].cleaned

----------------------------------------------------------------------------
RECURSIVE Suffixes(_)
Suffixes(q) == IF q = <<>> THEN {} ELSE {q} \cup Suffixes(Tail(q))

\* Every iteration of renderBook's page loops leaves a shorter queue behind:
\* the first page of a split scene and every continuation page.
SplitQueueShrinks ==
    \A i \in 1..Len(scenes) :
        LET paragraphsArray == Paragraphs(scenes[i].text) IN
        /\ paragraphsArray # <<>> =>
             Len(FirstPageFill(paragraphsArray, FirstPageLimit(scenes[i])).remaining)
                 < Len(paragraphsArray)
        /\ \A q \in Suffixes(paragraphsArray) : Len(PageFill(q).remaining) < Len(q)

\* The iteration of paginateScene's loop that a call suspended in measureFit
\* is about to finish removes at least one paragraph from the queue.
QueueShrinks ==
    run[1].pc = "measured" =>
        Len(PlacePage(run[1]).remainingParagraphs) < Len(run[1].remainingParagraphs)

\* An upper bound of the steps the call in flight still takes: the paragraphs
\* in its queue and in the scenes it has not reached, two for each scene not
\* finished, one for a pending measurement.
RECURSIVE ParagraphsFrom(_)
ParagraphsFrom(i) ==
    IF i > Len(scenes) THEN 0
    ELSE Len(Paragraphs(scenes[i].text)) + ParagraphsFrom(i + 1)

Rank ==
    IF run[1].pc = "idle" THEN 0
    ELSE Len(run[1].remainingParagraphs) + ParagraphsFrom(run[1].sceneIndex + 2)
         + 2 * (Len(scenes) - run[1].sceneIndex)
         + (IF run[1].pc = "measured" THEN 1 ELSE 0)

\* Every step of a call in flight lowers the bound.
RankFalls == run[1].pc # "idle" => Rank' < Rank

\* A call in flight waits at an await of a resolved promise, with work left;
\* a call that ended returned a layout that ends with the back cover.
ResumableOrReturned ==
    /\ run[1].pc \in {"idle", "measured", "paginated"}
    /\ run[1].pc # "idle" => Rank > 0
    /\ Len(layouts) = Len(settled)
    /\ \A l \in 1..Len(layouts) :
        /\ settled[l].state = "fulfilled"
        /\ layouts[l].pages[Len(layouts[l].pages)].type = "back"

(* C25 - Pagination terminates: every page iteration of paginateScene and of  *)
(* renderBook's split branch removes at least one paragraph from its queue;   *)
(* every step of a compile in flight lowers a natural-number bound, the call  *)
(* is always resumable until then, and it ends by returning a layout whose    *)
(* last page is the back cover.                                               *)
PaginationTerminates ==
    /\ []SplitQueueShrinks
    /\ []QueueShrinks
    /\ []ResumableOrReturned
    /\ [][RankFalls]_run

\* A returned layout with a scene paginated over two pages, and a rendered
\* book with a continuation page.
PaginationTerminatesWitness ==
    /\ \E l \in 1..Len(layouts), i \in 0..Len(scenes) - 1 :
        Len(LayoutScenePages(layouts[l].pages, i)) = 2
    /\ \E k \in 1..Len(book) : IsContent(book[k]) /\ book[k].continuation

----------------------------------------------------------------------------
\* The text of the scene a page of the book belongs to; none for the covers
\* and the title page.
TextOfPage(pageIndex) ==
    LET page == book[pageIndex + 1] IN
    IF IsContent(page) THEN SceneAt(page.scene).text ELSE <<>>

(* C22 - Audio follows the page: while audio is enabled, the text that         *)
(* playPageAudio handed to audio.speak for the page shown is the text of the  *)
(* scene that page belongs to, and nothing for the front cover, the title     *)
(* page and the back cover, also when an earlier scene was split.             *)
AudioFollowsPage ==
    Rendered /\ audio.enabled => pageFlip.spoke = TextOfPage(pageFlip.page)

----------------------------------------------------------------------------
\* The speak calls whose Audio is playing.
Playing == {c \in DOMAIN audio.speaks : audio.speaks[c].pc = "playing"}

(* C26 - One narration at a time: at most one Audio is playing, and           *)
(* this.currentAudio refers to it, also when speak was called again while an  *)
(* earlier TTS request was in flight.                                         *)
OneNarration ==
    /\ Cardinality(Playing) <= 1
    /\ \A c \in Playing : audio.currentAudio = c

----------------------------------------------------------------------------
\* The speak calls that are heard: an Audio playing, or an utterance handed
\* to speechSynthesis.
Heard == {c \in DOMAIN audio.speaks : audio.speaks[c].pc \in {"playing", "fallback"}}

(* C27 - Disabled audio stays silent: while audio is switched off nothing is  *)
(* played or spoken, also not by a speak call that was in flight when the     *)
(* narration was switched off.                                                *)
SilentWhenDisabled == ~audio.enabled => Heard = {}

----------------------------------------------------------------------------
\* The polling chains that are active: a timer pending or a check in flight.
ActiveChains == {c \in DOMAIN polling.chains : polling.chains[c].pc \in {"timer", "fetch"}}

\* At most one chain is active.
OneChain == Cardinality(ActiveChains) <= 1

\* Once the real image is loaded no check is scheduled.
NoCheckWhenLoaded ==
    polling.sceneImage = "real" =>
        \A c \in DOMAIN polling.chains : polling.chains[c].pc # "timer"

\* The delay of a chain is 2000 ms plus whole seconds, at most 10000 ms.
DelayBounded ==
    \A c \in DOMAIN polling.chains :
        \E k \in 0..8 : polling.chains[c].delay = 2000 + 1000 * k

(* C28 - Single image-polling chain: at most one polling chain is active at   *)
(* any time, also when startImagePolling is called again while a status       *)
(* request is in flight; once the real image is loaded no further check is    *)
(* scheduled; the delay starts at 2000 ms, grows by 1000 ms and never exceeds *)
(* 10000 ms.                                                                  *)
SinglePollingChain == OneChain /\ NoCheckWhenLoaded /\ DelayBounded

----------------------------------------------------------------------------
(* C29 - Recovery after a failed choice: when the event stream of makeChoice  *)
(* reports an error, or opening it throws, the connection is closed,          *)
(* currentScene and currentChoices are what they were before the choice, and  *)
(* the choice buttons are enabled and the choices panel is visible again.     *)
ChoiceRecovered ==
    storyPage.outcome = "failed" =>
        /\ storyPage.eventSource # "open"
        /\ storyPage.currentScene = storyPage.before
        /\ storyPage.currentChoices = storyPage.before
        /\ ~storyPage.disabled
        /\ storyPage.choicesPanel = "flex"

----------------------------------------------------------------------------
\* The karma of the story shown, 0 without one.
KarmaShown == IF "karma" \in DOMAIN storyPage.stats THEN storyPage.stats.karma ELSE 0

(* C30 - Karma label thresholds: the stats bar shows 'Heroic' for karma above *)
(* 60, 'Good' for karma above 30 up to 60, 'Villainous' for karma below -60,  *)
(* 'Dark' for karma below -30 down to -60, and 'Neutral' otherwise (a missing *)
(* karma counts as 0).                                                        *)
KarmaLabel ==
    storyPage.loaded =>
        storyPage.karmaText =
            (IF KarmaShown > 60 THEN "Heroic"
             ELSE IF KarmaShown > 30 THEN "Good"
             ELSE IF KarmaShown < -60 THEN "Villainous"
             ELSE IF KarmaShown < -30 THEN "Dark"
             ELSE "Neutral")

====
